---------------------------- MODULE Spec2Model ----------------------------
(***************************************************************************)
(* Model of ocifs: the buffered multipart write engine of OCIFile          *)
(* (src/ocifs/core.py) and the lake-sharing redirection registry           *)
(* (src/ocifs/lake_sharing_object_storage_client.py).                      *)
(*                                                                         *)
(* Sizes are scaled: one model byte stands for a run of bytes, and the     *)
(* part-size limits keep the order relations of the source                 *)
(* (MINIMUM_BLOCK_SIZE < MAXIMUM_BLOCK_SIZE, 2*MINIMUM <= MAXIMUM).        *)
(***************************************************************************)
EXTENDS Integers, Sequences, FiniteSets, TLC

(* ------------------------------ bounds -------------------------------- *)
MaxTotal == 7        \* most bytes one session writes in total
MaxFailures == 1     \* most failing remote calls in one behaviour
MaxBlockSize == 6    \* largest block size asked for at open
MaxLog == 5          \* most client calls in one behaviour

(* ------------------------- program constants -------------------------- *)
retries == 5
MINIMUM_BLOCK_SIZE == 2
MAXIMUM_BLOCK_SIZE == 5

None == <<>>
Some(x) == <<x>>
IsNone(o) == o = <<>>
Val(o) == o[1]

Min(a, b) == IF a < b THEN a ELSE b

(* The code never looks at the value of a byte, so the k-th byte a session *)
(* is given is named k: a lost, duplicated or displaced byte then shows in  *)
(* every comparison of byte strings.                                        *)
Stream(from, n) == [i \in 1..n |-> from + i]

(* ------------------------ io.BytesIO (buffer) ------------------------- *)
\* a buffer is [data, pos]
NewBytesIO == [data |-> <<>>, pos |-> 0]

BufWrite(b, d) ==
  LET n == Len(b.data)
      e == b.pos + Len(d)
  IN [data |-> SubSeq(b.data, 1, b.pos) \o d \o SubSeq(b.data, e + 1, n),
      pos |-> e]

BufRead(b, k) ==
  LET e == Min(b.pos + k, Len(b.data))
  IN [out |-> SubSeq(b.data, b.pos + 1, e), buf |-> [b EXCEPT !.pos = e]]

BufReadAll(b) == BufRead(b, Len(b.data))

BufSeek0(b) == [b EXCEPT !.pos = 0]


(* --------------------- object storage (the remote) -------------------- *)
\* One key of one bucket: the object (None or Some(bytes)) and the one
\* multipart upload a session may open on it.
UploadId == 1

NewStore == [obj |-> None, mpu |-> "none", mparts |-> <<>>]

Req(op, num, body, plist) ==
  [op |-> op, num |-> num, body |-> body, plist |-> plist]

ETag(q) == <<q.num, Len(q.body)>>

\* the service builds the object from the listed parts in ascending
\* part-number order
RECURSIVE AssembleNums(_, _)
AssembleNums(mparts, nums) ==
  IF nums = {} THEN <<>>
  ELSE LET n == CHOOSE x \in nums : \A y \in nums : x <= y
       IN mparts[n] \o AssembleNums(mparts, nums \ {n})

Assemble(mparts, plist) ==
  AssembleNums(mparts, {plist[i] : i \in 1..Len(plist)})

\* requests the service refuses whatever the transport does
RemoteRejects(s, q) ==
  \/ q.op \in {"upload_part", "abort_multipart_upload"} /\ s.mpu # "open"
  \/ q.op = "commit_multipart_upload"
       /\ (s.mpu # "open" \/ \E i \in 1..Len(q.plist) : q.plist[i] \notin DOMAIN s.mparts)
  \/ q.op = "get_object" /\ IsNone(s.obj)

RemoteApply(s, q) ==
  CASE q.op = "put_object" ->
         [store |-> [s EXCEPT !.obj = Some(q.body)], ret |-> <<>>]
    [] q.op = "create_multipart_upload" ->
         [store |-> [s EXCEPT !.mpu = "open", !.mparts = <<>>], ret |-> UploadId]
    [] q.op = "upload_part" ->
         [store |-> [s EXCEPT !.mparts =
                       [k \in DOMAIN s.mparts \cup {q.num} |->
                          IF k = q.num THEN q.body ELSE s.mparts[k]]],
          ret |-> ETag(q)]
    [] q.op = "commit_multipart_upload" ->
         [store |-> [s EXCEPT !.obj = Some(Assemble(s.mparts, q.plist)),
                              !.mpu = "committed"],
          ret |-> <<>>]
    [] q.op = "abort_multipart_upload" ->
         [store |-> [s EXCEPT !.mpu = "aborted"], ret |-> <<>>]
    [] q.op = "get_object" ->
         \* range "bytes=%i-%i" % (start, end - 1): q.num = start, q.plist = <<end - 1>>
         [store |-> s,
          ret |-> SubSeq(Val(s.obj), q.num + 1, Min(q.plist[1] + 1, Len(Val(s.obj))))]

(* ------------------------ transport outcomes -------------------------- *)
\* "auth": the call raises with code 401/402/403; "err": any other ServiceError
Outcomes == {"ok", "auth", "err"}

NonOk(orc) == Cardinality({i \in 1..Len(orc) : orc[i] # "ok"})

Failing == Outcomes \ {"ok"}

\* LakeSharingObjectStorageClient.__init__: the maps are functions keyed by
\* strings; recorded is the set of (namespace, bucket) pairs this client
\* has recorded as managed, kept beside the map to state the claims
NewClient == [bucket_namespace_to_lake_ocid_map |-> <<>>,
              lake_ocid_to_lake_sharing_client_map |-> <<>>,
              lake_ocid_to_lake_client_map |-> <<>>,
              recorded |-> {}]

\* call by value: v is evaluated once and K is applied to its value
Bind(v, K(_)) == CHOOSE r \in {K(x) : x \in {v}} : TRUE

\* one invocation of a client method
Invoke(w0, q0) ==
  Bind(<<w0, q0>>, LAMBDA a :
    (LET w == a[1]
         q == a[2]
         o == IF w.orc = <<>> THEN "ok" ELSE Head(w.orc)
         rest == IF w.orc = <<>> THEN <<>> ELSE Tail(w.orc)
         res == IF o = "ok" /\ RemoteRejects(w.store, q) THEN "err" ELSE o
         call == [op |-> q.op, num |-> q.num, body |-> q.body, plist |-> q.plist,
                  ok |-> res = "ok"]
         w1 == [w EXCEPT !.orc = rest, !.calls = Append(@, call)]
     IN IF res = "ok"
        THEN Bind(RemoteApply(w.store, q), LAMBDA ap :
               [w1 EXCEPT !.store = ap.store, !.ret = ap.ret, !.exc = "none"])
        ELSE [w1 EXCEPT !.exc = IF res = "auth" THEN "ServiceError401"
                                 ELSE "ServiceError"]))

connect(w) == [w EXCEPT !.client = NewClient]

_call_oci(w, q0) ==
  Bind(q0, LAMBDA q :
    Bind(Invoke(w, q), LAMBDA w1 :
      IF w1.exc = "ServiceError401"
      THEN Invoke(connect([w1 EXCEPT !.exc = "none"]), q)
      ELSE w1))

IsServiceError(w) == w.exc \in {"ServiceError", "ServiceError401"}

translate_oci_error(w) == [w EXCEPT !.exc = "OCIError"]

\* ERROR_CODE_TO_EXCEPTION: the exception class and errno ("" when the
\* class is not built with one) for each service code and HTTP status
ERROR_CODE_TO_EXCEPTION ==
  [k \in {"CannotParseRequest", "InvalidParameter", "LimitExceeded",
          "MissingParameter", "QuotaExceeded",
          "RelatedResourceNotAuthorizedOrNotFound", "NoEtagMatch", "400", "412"}
     |-> <<"IOError", "EINVAL">>]
  @@ [k \in {"NotAuthenticated", "SignUpRequired", "NotAuthorized",
              "401", "402", "403"} |-> <<"PermissionError", "">>]
  @@ [k \in {"NotAuthorizedOrNotFound", "NotFound", "404"}
        |-> <<"FileNotFoundError", "">>]
  @@ [k \in {"MethodNotAllowed", "405"} |-> <<"IOError", "EPERM">>]
  @@ [k \in {"IncorrectState", "InvalidatedRetryToken",
              "NotAuthorizedOr ResourceAlreadyExists",
              "NotAuthorizedOrResourceAlreadyExists", "TooManyRequests",
              "ServiceUnavailable", "409", "429", "503"} |-> <<"IOError", "EBUSY">>]
  @@ [k \in {"InternalServerError", "500"} |-> <<"IOError", "EREMOTEIO">>]
  @@ [k \in {"MethodNotImplemented", "501"} |-> <<"IOError", "ENOSYS">>]

\* str(error.status)
StatusStr(status) ==
  CASE status = 400 -> "400" [] status = 401 -> "401" [] status = 402 -> "402"
    [] status = 403 -> "403" [] status = 404 -> "404" [] status = 405 -> "405"
    [] status = 409 -> "409" [] status = 412 -> "412" [] status = 418 -> "418"
    [] status = 429 -> "429" [] status = 500 -> "500" [] status = 501 -> "501"
    [] status = 503 -> "503"

\* dict.get(key, default)
TableGet(key, default) ==
  IF key \in DOMAIN ERROR_CODE_TO_EXCEPTION
  THEN Some(ERROR_CODE_TO_EXCEPTION[key]) ELSE default

\* translate_oci_error(error, message) as a function of the error: the
\* exception it returns; message texts are named by where they come from
TranslateError(error, message) ==
  IF ~error.hasCodeAndStatus THEN [type |-> "unchanged", errno |-> "", message |-> "str(error)"]
  ELSE LET constructor == TableGet(error.code, TableGet(StatusStr(error.status), None))
       IN IF IsNone(constructor)
          THEN [type |-> "IOError", errno |-> "EIO",
                message |-> IF ~IsNone(message) THEN Val(message) ELSE "str(error)"]
          ELSE [type |-> Val(constructor)[1], errno |-> Val(constructor)[2],
                message |-> IF ~IsNone(message) THEN Val(message)
                            ELSE IF ~IsNone(error.message) THEN Val(error.message)
                            ELSE "str(error)"]

Translated(w0) ==
  Bind(w0, LAMBDA w : IF IsServiceError(w) THEN translate_oci_error(w) ELSE w)


(* ----------------------- paths and the dircache ----------------------- *)
\* "bucket@namespace/k1/k2" is << <<bucket, namespace>>, k1, k2 >>
FilePath == << <<"b", "n">>, "d", "f" >>

_parent(path) ==
  IF Len(path) > 1 THEN SubSeq(path, 1, Len(path) - 1)
  ELSE << <<"", path[1][2]>> >>

\* Pop_keep: the entry stays in the cache
Pop_keep(cache, path) == cache

Pop(cache, path) == [p \in DOMAIN cache \ {path} |-> cache[p]]

\* invalidate_cache_noparent: the entry of the parent is left in the cache
invalidate_cache_noparent(w, path) ==
  [w EXCEPT !.dircache = Pop(@, path)]

invalidate_cache(w, path) ==
  [w EXCEPT !.dircache = Pop(Pop(@, path), _parent(path))]

touch(w, path) ==
  Bind(_call_oci(w, Req("put_object", 0, <<>>, <<>>)), LAMBDA w1 :
    IF w1.exc # "none" THEN Translated(w1)
    ELSE invalidate_cache(w1, _parent(path)))

Raise(w, e) == [w EXCEPT !.exc = e]

\* invalidate_cache(): "if path is None: self.dircache.clear()"
invalidate_cache_None(w) == [w EXCEPT !.dircache = <<>>]

\* the directories listed and the paths invalidated: "@n", "b@n", "b@n/d",
\* "b@n/e", and the file "b@n/d/f" with its neighbour "b@n/d/g"
NamespaceDir == << <<"", "n">> >>
BucketDir == SubSeq(FilePath, 1, 1)
ParentDir == SubSeq(FilePath, 1, 2)
SiblingDir == << <<"b", "n">>, "e" >>
OtherFile == << <<"b", "n">>, "d", "g" >>
CacheDirs == {NamespaceDir, BucketDir, ParentDir, SiblingDir}

\* CachePut_merge: the names are added to the listing the cache holds
CachePut_merge(cache, path, files) ==
  [p \in DOMAIN cache \cup {path} |->
     IF p # path THEN cache[p]
     ELSE IF p \in DOMAIN cache THEN cache[p] \cup files ELSE files]

\* self.dircache[path] = files; a listing is the set of names in it
CachePut(cache, path, files) ==
  [p \in DOMAIN cache \cup {path} |-> IF p = path THEN files ELSE cache[p]]

\* outcome is what list_buckets answers: "ok" with files, or a ServiceError
_lsbuckets(w, path, refresh, outcome, files) ==
  IF path \notin DOMAIN w.dircache \/ refresh
  THEN IF outcome # "ok" THEN Raise(w, "OCIError")
       ELSE [w EXCEPT !.dircache = CachePut(@, path, files), !.ret = files]
  ELSE [w EXCEPT !.ret = w.dircache[path]]

\* outcome is what list_objects answers: "ok" with files, or a ServiceError
_lsdir(w, path, refresh, outcome, files) ==
  IF path \notin DOMAIN w.dircache \/ refresh
  THEN IF outcome # "ok" THEN Raise(w, "OCIError")
       ELSE [w EXCEPT !.dircache = CachePut(@, path, files), !.ret = files]
  ELSE [w EXCEPT !.ret = w.dircache[path]]

\* "if not bucket: _lsbuckets else: _lsdir"
_ls(w, path, refresh, outcome, files) ==
  IF path[1][1] = "" THEN _lsbuckets(w, path, refresh, outcome, files)
  ELSE _lsdir(w, path, refresh, outcome, files)

(* ------------------ the filesystem over a tree of keys ---------------- *)
\* the keys "d/f" and "d/e/g" of bucket b@n and the directories above them
DeepDir == << <<"b", "n">>, "d", "e" >>
DeepFile == << <<"b", "n">>, "d", "e", "g" >>
TreeFiles == {FilePath, DeepFile}
TreeDirs == {BucketDir, ParentDir, DeepDir}

\* path is strictly below directory d
Below(d, path) == Len(d) < Len(path) /\ SubSeq(path, 1, Len(d)) = d

\* what list_buckets answers for "@n" and list_objects (prefix, delimiter
\* "/") for a directory: the objects in it and the prefixes one level down
Listing(objects, bucket, path) ==
  IF path = NamespaceDir THEN (IF bucket THEN {BucketDir} ELSE {})
  ELSE {SubSeq(o, 1, Len(path) + 1) : o \in {x \in objects : Below(path, x)}}

\* the filesystem and the remote side: the objects of the bucket, whether
\* the bucket exists, the exception raised, the value returned, and
\* whether the remote mutating call of the operation has failed
Fs(cache, objs, bkt) == [dircache |-> cache, objects |-> objs, bucket |-> bkt,
                         exc |-> "none", ret |-> {}, failed |-> FALSE]

\* the mutating call raised a ServiceError, which is translated
RaiseFailed(fs) == [fs EXCEPT !.exc = "OCIError", !.failed = TRUE]

\* _ls against the remote side: list_objects raises when the bucket is gone
ListDir(fs, path, refresh) ==
  _ls(fs, path, refresh,
      IF path # NamespaceDir /\ ~fs.bucket THEN "err" ELSE "ok",
      Listing(fs.objects, fs.bucket, path))

\* ls(path, refresh): an empty listing makes it list the parent and keep
\* the entry named path that is not a directory
ls(fs, path, refresh) ==
  Bind(ListDir(fs, path, refresh), LAMBDA a :
    IF a.exc # "none" \/ a.ret # {} THEN a
    ELSE Bind(ListDir(a, _parent(path), refresh), LAMBDA b :
           IF b.exc # "none" THEN b
           ELSE [b EXCEPT !.ret = {o \in b.ret : o = path /\ o \in TreeFiles}]))

\* fsspec's walk and find (called by rm): every directory below path is
\* listed with ls, errors of a listing end that branch; ret is the set of
\* files found
RECURSIVE walk(_, _)
RECURSIVE WalkDirs(_, _, _)
WalkDirs(fs, dirs, found) ==
  IF dirs = {} THEN [fs EXCEPT !.ret = found]
  ELSE LET d == CHOOSE x \in dirs : TRUE
       IN Bind(walk(fs, d), LAMBDA a : WalkDirs(a, dirs \ {d}, found \cup a.ret))

walk(fs, path) ==
  Bind(ls(fs, path, FALSE), LAMBDA a :
    IF a.exc # "none" THEN [a EXCEPT !.exc = "none", !.ret = {}]
    ELSE WalkDirs(a, {o \in a.ret : o \notin TreeFiles /\ o # path},
                  {o \in a.ret : o \in TreeFiles}))

find(fs, path) == walk(fs, path)

\* sorted(names): "b@n/d/e/g" sorts before "b@n/d/f"
RECURSIVE Sorted(_)
Sorted(files) ==
  IF files = {} THEN <<>>
  ELSE LET first == IF DeepFile \in files THEN DeepFile ELSE CHOOSE x \in files : TRUE
       IN <<first>> \o Sorted(files \ {first})

\* exists(path): info() asks the service (head_object, then list_objects
\* for a prefix; head_bucket for a bucket) and does not touch the cache
exists(fs, path) ==
  IF path = BucketDir THEN fs.bucket
  ELSE fs.bucket /\ (path \in fs.objects \/ \E o \in fs.objects : Below(path, o))

\* touch(path) on the tree: the put fails when its outcome says so or the
\* bucket is gone
TreeTouch(fs, path, outcome) ==
  Bind(touch([dircache |-> fs.dircache, store |-> NewStore, calls |-> <<>>,
              client |-> NewClient, exc |-> "none", ret |-> <<>>,
              orc |-> <<IF fs.bucket THEN outcome ELSE "err">>], path),
       LAMBDA w :
         IF w.exc # "none" THEN [fs EXCEPT !.dircache = w.dircache, !.exc = w.exc,
                                           !.failed = TRUE]
         ELSE [fs EXCEPT !.dircache = w.dircache, !.objects = @ \cup {path}])

copy_basic(fs, path1, path2, outcome) ==
  IF outcome # "ok" \/ ~fs.bucket \/ path1 \notin fs.objects THEN RaiseFailed(fs)
  ELSE invalidate_cache([fs EXCEPT !.objects = @ \cup {path2}], path2)

\* mkdir(path, create_parents): "BucketAlreadyExists" is swallowed
mkdir(fs, path, create_parents, outcome) ==
  IF Len(path) = 1 \/ create_parents
  THEN IF fs.bucket THEN fs
       ELSE IF outcome # "ok" THEN RaiseFailed(fs)
       ELSE invalidate_cache(invalidate_cache([fs EXCEPT !.bucket = TRUE], NamespaceDir),
                             path)
  ELSE IF ~exists(fs, BucketDir) THEN Raise(fs, "FileNotFoundError")
  ELSE fs

\* rmdir(path): delete_bucket is refused for a bucket that holds objects
rmdir(fs, path, outcome) ==
  Bind(ls(fs, path, FALSE), LAMBDA a :
    IF a.exc # "none" THEN a
    ELSE IF a.ret # {} THEN Raise(a, "OSError")
    ELSE IF Len(path) > 1 THEN a
    ELSE IF outcome # "ok" \/ a.objects # {} THEN RaiseFailed(a)
    ELSE invalidate_cache(invalidate_cache([a EXCEPT !.bucket = FALSE], path),
                          NamespaceDir))

\* bulk_delete(pathlist): the delete of the failAt-th path raises (0: none
\* does); the service refuses to delete an object that does not exist
RECURSIVE bulk_delete(_, _, _)
bulk_delete(fs, pathlist, failAt) ==
  IF pathlist = <<>> THEN fs
  ELSE Bind(invalidate_cache(fs, _parent(Head(pathlist))), LAMBDA a :
         IF failAt = 1 \/ ~a.bucket \/ Head(pathlist) \notin a.objects
         THEN RaiseFailed(a)
         ELSE bulk_delete([a EXCEPT !.objects = @ \ {Head(pathlist)}],
                          Tail(pathlist), failAt - 1))

\* rm(path, recursive); failAt as in bulk_delete, outcome is the one of
\* delete_object or delete_bucket
rm(fs, path, recursive, failAt, outcome) ==
  IF recursive
  THEN Bind(find(fs, path), LAMBDA a :
         IF Len(path) > 1 /\ a.ret = {} THEN Raise(a, "FileNotFoundError")
         ELSE Bind(bulk_delete([a EXCEPT !.ret = {}], Sorted(a.ret), failAt), LAMBDA b :
                IF b.exc # "none" \/ Len(path) > 1 THEN b
                ELSE rmdir(b, path, outcome)))
  ELSE IF Len(path) > 1
  THEN IF ~exists(fs, path) THEN Raise(fs, "FileNotFoundError")
       ELSE IF outcome # "ok" \/ path \notin fs.objects THEN RaiseFailed(fs)
       ELSE invalidate_cache([fs EXCEPT !.objects = @ \ {path}], _parent(path))
  ELSE IF ~exists(fs, path) THEN Raise(fs, "FileNotFoundError")
  ELSE IF outcome # "ok" \/ fs.objects # {} THEN RaiseFailed(fs)
  ELSE invalidate_cache(invalidate_cache([fs EXCEPT !.bucket = FALSE], path),
                        NamespaceDir)

(* ------------------------------ OCIFile ------------------------------- *)
NewFile == [state |-> "unopened", blocksize |-> 0, autocommit |-> TRUE,
            buffer |-> None, loc |-> 0, offset |-> None, forced |-> FALSE,
            closed |-> FALSE, mpu |-> None, parts |-> None]

tell(f) == f.loc

\* "not self.parts": None or the empty list
NotParts(f) == IsNone(f.parts) \/ Val(f.parts) = <<>>

_abort_mpu(w0) ==
  Bind(w0, LAMBDA w :
    IF IsNone(w.f.mpu) THEN w
    ELSE Bind(_call_oci(w, Req("abort_multipart_upload", 0, <<>>, <<>>)),
              LAMBDA w1 : IF w1.exc # "none" THEN Translated(w1)
                          ELSE [w1 EXCEPT !.f.mpu = None]))

\* CommitInvalidate_parent: only the listing of the object's own directory
\* is looked at
CommitInvalidate_parent(w0, n) ==
  Bind(w0, LAMBDA w :
    IF _parent(FilePath) \in DOMAIN w.dircache
       /\ FilePath \notin w.dircache[_parent(FilePath)]
    THEN [w EXCEPT !.dircache = Pop(@, _parent(FilePath))]
    ELSE w)

RECURSIVE CommitInvalidate(_, _)
\* the loop closing commit(): path walks from the bucket to the parent
CommitInvalidate(w0, n) ==
  Bind(w0, LAMBDA w :
    IF n >= Len(FilePath) THEN w
    ELSE LET path == SubSeq(FilePath, 1, n)
             child == SubSeq(FilePath, 1, n + 1)
         IN CommitInvalidate(
              IF path \in DOMAIN w.dircache /\ child \notin w.dircache[path]
              THEN invalidate_cache(w, path)
              ELSE w,
              n + 1))

commit(w0) ==
  Bind(w0, LAMBDA w :
    Bind(IF tell(w.f) = 0
         THEN IF ~IsNone(w.f.buffer)
              THEN Bind(_abort_mpu(w), LAMBDA a :
                     IF a.exc # "none" THEN a ELSE touch(a, FilePath))
              ELSE w
         ELSE IF NotParts(w.f)
         THEN IF ~IsNone(w.f.buffer)
              THEN Bind(BufReadAll(BufSeek0(Val(w.f.buffer))), LAMBDA r :
                     Translated(_call_oci([w EXCEPT !.f.buffer = Some(r.buf)],
                                          Req("put_object", 0, r.out, <<>>))))
              ELSE Raise(w, "RuntimeError")
         ELSE IF IsNone(w.f.mpu) THEN Raise(w, "AttributeError")
         ELSE Translated(_call_oci(w,
                Req("commit_multipart_upload", 0, <<>>,
                    [i \in 1..Len(Val(w.f.parts)) |-> Val(w.f.parts)[i].partNum]))),
         LAMBDA w1 :
           IF w1.exc # "none" THEN w1
           ELSE CommitInvalidate([w1 EXCEPT !.f.buffer = None], 1)))

_initiate_upload_always(w0) ==
  Bind(w0, LAMBDA w :
    Bind(_call_oci([w EXCEPT !.f.parts = Some(<<>>)],
                   Req("create_multipart_upload", 0, <<>>, <<>>)),
         LAMBDA w1 : IF w1.exc # "none" THEN Translated(w1)
                     ELSE [w1 EXCEPT !.f.mpu = Some(w1.ret)]))

_initiate_upload_le(w0) ==
  Bind(w0, LAMBDA w :
    IF w.f.autocommit /\ tell(w.f) <= w.f.blocksize THEN w
    ELSE Bind(_call_oci([w EXCEPT !.f.parts = Some(<<>>)],
                        Req("create_multipart_upload", 0, <<>>, <<>>)),
              LAMBDA w1 : IF w1.exc # "none" THEN Translated(w1)
                          ELSE [w1 EXCEPT !.f.mpu = Some(w1.ret)]))

_initiate_upload(w0) ==
  Bind(w0, LAMBDA w :
    IF w.f.autocommit /\ tell(w.f) < w.f.blocksize THEN w
    ELSE Bind(_call_oci([w EXCEPT !.f.parts = Some(<<>>)],
                        Req("create_multipart_upload", 0, <<>>, <<>>)),
              LAMBDA w1 : IF w1.exc # "none" THEN Translated(w1)
                          ELSE [w1 EXCEPT !.f.mpu = Some(w1.ret)]))

\* "for attempt in range(self.retries + 1)": an attempt breaks out of the
\* loop when the call returns and raises IOError when it fails
UploadAttempts(w0, q, attempt) ==
  Bind(w0, LAMBDA w :
    IF attempt > retries THEN Raise(w, "UnboundLocalError")
    ELSE IF IsNone(w.f.mpu) THEN Raise(w, "IOError")
    ELSE Bind(_call_oci(w, q), LAMBDA w1 :
           IF w1.exc = "none" THEN w1 ELSE Raise(w1, "IOError")))

Slices_drop(data0, data1, blocksize) ==
  LET data1_size == Len(data1)
  IN IF 0 < data1_size /\ data1_size < blocksize
     THEN LET remainder == data0 \o data1
              remainder_size == blocksize + data1_size
          IN IF remainder_size <= MAXIMUM_BLOCK_SIZE
             THEN <<remainder, <<>>>>
             ELSE LET partition == remainder_size \div 2
                  IN <<SubSeq(remainder, 1, partition),
                       SubSeq(remainder, partition + 2, Len(remainder))>>
     ELSE <<data0, data1>>

Slices_nomerge(data0, data1, blocksize) == <<data0, data1>>

\* the slices (data0, data1) after the merge and bisect rules
Slices(data0, data1, blocksize) ==
  LET data1_size == Len(data1)
  IN IF 0 < data1_size /\ data1_size < blocksize
     THEN LET remainder == data0 \o data1
              remainder_size == blocksize + data1_size
          IN IF remainder_size <= MAXIMUM_BLOCK_SIZE
             THEN <<remainder, <<>>>>
             ELSE LET partition == remainder_size \div 2
                  IN <<SubSeq(remainder, 1, partition),
                       SubSeq(remainder, partition + 1, Len(remainder))>>
     ELSE <<data0, data1>>

PartNumber0(parts) == Len(parts)

\* "part = len(self.parts) + 1"
PartNumber(parts) == Len(parts) + 1

RECURSIVE UploadLoop(_, _)
\* "while data1:" of _upload_chunk
UploadLoop(w0, data) ==
  Bind(<<w0, data>>, LAMBDA a :
    (LET w == a[1]
         data1 == a[2]
     IN IF data1 = <<>> THEN w
        ELSE Bind(BufRead(Val(w.f.buffer), w.f.blocksize), LAMBDA r :
          Bind(Slices(data1, r.out, w.f.blocksize), LAMBDA sl :
            (LET w1 == [w EXCEPT !.f.buffer = Some(r.buf)]
             IN IF IsNone(w.f.parts) THEN Raise(w1, "TypeError")
                ELSE LET part == PartNumber(Val(w.f.parts))
                     IN Bind(UploadAttempts(w1, Req("upload_part", part, sl[1], <<>>), 0),
                             LAMBDA w2 :
                               IF w2.exc # "none" THEN w2
                               ELSE UploadLoop(
                                      [w2 EXCEPT !.f.parts =
                                         Some(Append(Val(w.f.parts),
                                                     [partNum |-> part,
                                                      etag |-> w2.ret]))],
                                      sl[2])))))))

_upload_chunk_commit_on_close(w0, final) ==
  Bind(w0, LAMBDA w :
    Bind(IF w.f.autocommit /\ final /\ tell(w.f) < w.f.blocksize THEN w
         ELSE IF IsNone(w.f.buffer) THEN Raise(w, "AttributeError")
         ELSE Bind(BufRead(BufSeek0(Val(w.f.buffer)), w.f.blocksize), LAMBDA r :
                UploadLoop([w EXCEPT !.f.buffer = Some(r.buf)], r.out)),
         LAMBDA w1 :
           IF w1.exc # "none" THEN w1
           ELSE IF final THEN commit(w1)
           ELSE w1))

_upload_chunk(w0, final) ==
  Bind(w0, LAMBDA w :
    Bind(IF w.f.autocommit /\ final /\ tell(w.f) < w.f.blocksize THEN w
         ELSE IF IsNone(w.f.buffer) THEN Raise(w, "AttributeError")
         ELSE Bind(BufRead(BufSeek0(Val(w.f.buffer)), w.f.blocksize), LAMBDA r :
                UploadLoop([w EXCEPT !.f.buffer = Some(r.buf)], r.out)),
         LAMBDA w1 :
           IF w1.exc # "none" THEN w1
           ELSE IF w.f.autocommit /\ final THEN commit(w1)
           ELSE w1))

\* write, flush and close are the methods OCIFile inherits from fsspec's
\* AbstractBufferedFile; they call the hooks _initiate_upload and
\* _upload_chunk above.
flush(w0, force) ==
  Bind(w0, LAMBDA w :
    IF w.f.closed THEN Raise(w, "ValueError")
    ELSE IF force /\ w.f.forced THEN Raise(w, "ValueError")
    ELSE LET w1 == IF force THEN [w EXCEPT !.f.forced = TRUE] ELSE w
         IN IF ~force /\ IsNone(w1.f.buffer) THEN Raise(w1, "AttributeError")
            ELSE IF ~force /\ Val(w1.f.buffer).pos < w1.f.blocksize THEN w1
            ELSE Bind(IF IsNone(w1.f.offset)
                      THEN Bind(_initiate_upload([w1 EXCEPT !.f.offset = Some(0)]),
                                LAMBDA a : IF a.exc # "none"
                                           THEN [a EXCEPT !.f.closed = TRUE]
                                           ELSE a)
                      ELSE w1,
                      LAMBDA w2 :
                        IF w2.exc # "none" THEN w2
                        ELSE Bind(_upload_chunk(w2, force), LAMBDA w3 :
                               IF w3.exc # "none" \/ force THEN w3
                               ELSE [w3 EXCEPT
                                       !.f.offset =
                                          Some(Val(@) + Len(Val(w3.f.buffer).data)),
                                       !.f.buffer = Some(NewBytesIO)])))

write(w0, data) ==
  Bind(w0, LAMBDA w :
    IF w.f.closed \/ w.f.forced THEN Raise(w, "ValueError")
    ELSE IF IsNone(w.f.buffer) THEN Raise(w, "AttributeError")
    ELSE Bind(BufWrite(Val(w.f.buffer), data), LAMBDA b :
           (LET w1 == [w EXCEPT !.f.buffer = Some(b), !.f.loc = @ + Len(data)]
            IN IF b.pos >= w.f.blocksize THEN flush(w1, FALSE) ELSE w1)))

close(w0) ==
  Bind(w0, LAMBDA w :
    IF w.f.closed THEN w
    ELSE Bind(IF ~w.f.forced THEN flush(w, TRUE) ELSE w, LAMBDA w1 :
           [(IF w1.exc # "none" THEN w1
             ELSE invalidate_cache(invalidate_cache(w1, FilePath),
                                   _parent(FilePath)))
              EXCEPT !.f.closed = TRUE]))

discard(w) ==
  Bind(_abort_mpu(w), LAMBDA w1 :
    IF w1.exc # "none" THEN w1
    ELSE [w1 EXCEPT !.f.buffer = None])

\* OpenWrite_unchecked: the block size is not compared with the minimum
OpenWrite_unchecked(w, block_size, autocommit) ==
  [w EXCEPT !.f = [NewFile EXCEPT !.blocksize = block_size, !.autocommit = autocommit,
                                  !.buffer = Some(NewBytesIO), !.state = "open"]]

\* OCIFile.__init__ in a write mode
OpenWrite(w, block_size, autocommit) ==
  LET f1 == [NewFile EXCEPT !.blocksize = block_size, !.autocommit = autocommit,
                            !.buffer = Some(NewBytesIO)]
  IN IF block_size < MINIMUM_BLOCK_SIZE
     THEN Raise([w EXCEPT !.f = [f1 EXCEPT !.state = "rejected"]], "ValueError")
     ELSE [w EXCEPT !.f = [f1 EXCEPT !.state = "open"]]

\* OCIFile.__init__ in mode "rb": writable() is false, so the block size
\* is not checked; without a size argument the size is looked up, which
\* raises FileNotFoundError when the path holds no object
OpenRead(w, block_size, size) ==
  IF IsNone(size) /\ IsNone(w.store.obj) THEN Raise(w, "FileNotFoundError")
  ELSE [w EXCEPT !.f = [NewFile EXCEPT !.blocksize = block_size, !.state = "reading"]]

max_attempts == 10

_fetch_range_short(w, start, end, i) ==
  IF i >= max_attempts THEN Raise(w, "RuntimeError")
  ELSE Translated(_call_oci(w, Req("get_object", start, <<>>, <<end - 2>>)))

\* "for i in range(max_attempts)": the first pass returns or raises
_fetch_range(w, start, end, i) ==
  IF i >= max_attempts THEN Raise(w, "RuntimeError")
  ELSE Translated(_call_oci(w, Req("get_object", start, <<>>, <<end - 1>>)))

(* ------------------ lake-sharing redirection registry ----------------- *)
Lakes == {"ocid1.lake.x"}
\* (namespace, bucket) pairs: the first two differ and share a cache key
Pairs == {<<"n-x", "b">>, <<"n", "x-b">>, <<"n", "b">>}
ObjectName == "k"

\* mount_name.split(":") of the mount specifiers tried
MountSpecs == {<<"m">>, <<"m", "x">>, <<"m", "database", "d">>,
               <<"m", "user", "u">>, <<"m", "table", "d">>,
               <<"m", "table", "d", "t">>, <<"m", "database", "d", "t">>,
               <<"m", "weird", "x">>, <<"m", "a", "b", "c", "e">>}

\* str.upper() on the scope words used
Upper(s) ==
  CASE s = "database" -> "DATABASE"
    [] s = "table" -> "TABLE"
    [] s = "user" -> "USER"
    [] s = "weird" -> "WEIRD"
    [] OTHER -> s

ScopeEntities == {"DATABASE", "TABLE", "USER"}

MapPut(m, k, v) == [x \in DOMAIN m \cup {k} |-> IF x = k THEN v ELSE m[x]]
MapGet(m, k) == IF k \in DOMAIN m THEN Some(m[k]) ELSE None

get_mount_type(mount_spec) ==
  IF Len(mount_spec) = 1 THEN "EXTERNAL"
  ELSE IF 3 <= Len(mount_spec) /\ Len(mount_spec) <= 4
          /\ Upper(mount_spec[2]) \in ScopeEntities
       THEN "MANAGED"
       ELSE ""

\* TRUE when validate_mount_scope_entity raises ValueError
validate_mount_scope_entity(mount_spec_array) ==
  LET mount_scope_entity == Upper(mount_spec_array[2])
  IN \/ mount_scope_entity \notin ScopeEntities
     \/ mount_scope_entity = "DATABASE" /\ Len(mount_spec_array) # 3
     \/ mount_scope_entity = "TABLE" /\ Len(mount_spec_array) # 4
     \/ mount_scope_entity = "USER" /\ Len(mount_spec_array) # 3

\* TRUE when LakehouseClient.get_lakehouse_mount raises ValueError before
\* it sends the request ("" stands for None)
get_lakehouse_mount_rejects(mount_type, entity_type, schema_key, table_key, user_id) ==
  /\ mount_type = "MANAGED"
  /\ \/ entity_type \notin ScopeEntities
     \/ entity_type = "DATABASE" /\ schema_key = ""
     \/ entity_type = "TABLE" /\ (schema_key = "" \/ table_key # "")
     \/ entity_type = "USER" /\ user_id = ""

cache_key(namespace_name, bucket_name) == namespace_name \o "-" \o bucket_name

is_lakehouse_managed_bucket(c, namespace_name, bucket_name) ==
  ~IsNone(MapGet(c.bucket_namespace_to_lake_ocid_map,
                 cache_key(namespace_name, bucket_name)))

get_lake_sharing_client_by_bucket_namespace(c, namespace_name, bucket_name) ==
  LET lake_ocid == MapGet(c.bucket_namespace_to_lake_ocid_map,
                          cache_key(namespace_name, bucket_name))
  IN IF IsNone(lake_ocid) THEN None
     ELSE MapGet(c.lake_ocid_to_lake_sharing_client_map, Val(lake_ocid))

\* get_lake_sharing_client: [c, ret, exc]; endpoint and health are what the
\* lake service and the sharing server answer ("err": the call raises)
get_lake_sharing_client(c, lake_ocid, endpoint, health) ==
  LET cached == MapGet(c.lake_ocid_to_lake_sharing_client_map, lake_ocid)
  IN IF ~IsNone(cached) THEN [c |-> c, ret |-> Val(cached), exc |-> "none"]
     ELSE IF endpoint = "err" \/ health = "err"
     THEN [c |-> c, ret |-> <<>>, exc |-> "OCIError"]
     ELSE LET lake_sharing_client == [lake |-> lake_ocid, healthy |-> health = "healthy"]
          IN [c |-> IF health = "healthy"
                    THEN [c EXCEPT !.lake_ocid_to_lake_sharing_client_map =
                            MapPut(@, lake_ocid, lake_sharing_client)]
                    ELSE c,
              ret |-> lake_sharing_client, exc |-> "none"]

\* get_bucket_namespace_for_given_mount_name: [c, ret, exc]; mount is the
\* answer to the mount lookup: it raises, or has a status and names a bucket
get_bucket_namespace_for_given_mount_name(c, lake_ocid, mount_spec_array, mount_type, endpoint, health, mount) ==
  IF mount_type = "MANAGED" /\ validate_mount_scope_entity(mount_spec_array)
  THEN [c |-> c, ret |-> <<>>, exc |-> "ValueError"]
  ELSE
    Bind(get_lake_sharing_client(
           IF IsNone(MapGet(c.lake_ocid_to_lake_client_map, lake_ocid))
           THEN [c EXCEPT !.lake_ocid_to_lake_client_map = MapPut(@, lake_ocid, lake_ocid)]
           ELSE c,
           lake_ocid, endpoint, health),
         LAMBDA g :
      (LET c2 == [g.c EXCEPT !.lake_ocid_to_lake_sharing_client_map =
                    MapPut(@, lake_ocid, g.ret)]
           entity == IF mount_type = "MANAGED" THEN Upper(mount_spec_array[2]) ELSE ""
           schema_key == IF entity \in {"DATABASE", "TABLE"} THEN mount_spec_array[3] ELSE ""
           table_key == IF entity = "TABLE" THEN mount_spec_array[4] ELSE ""
           user_id == IF entity = "USER" THEN mount_spec_array[3] ELSE ""
       IN IF g.exc # "none" THEN [c |-> g.c, ret |-> <<>>, exc |-> g.exc]
          ELSE IF get_lakehouse_mount_rejects(mount_type, entity, schema_key,
                                              table_key, user_id)
          THEN [c |-> c2, ret |-> <<>>, exc |-> "ValueError"]
          ELSE IF mount.raises THEN [c |-> c2, ret |-> <<>>, exc |-> "OCIError"]
          ELSE IF mount.status # 200 THEN [c |-> c2, ret |-> <<>>, exc |-> "ValueError"]
          ELSE [c |-> [c2 EXCEPT
                         !.bucket_namespace_to_lake_ocid_map =
                            MapPut(@, cache_key(mount.namespace, mount.bucket_name),
                                   lake_ocid),
                         !.recorded = @ \cup {<<mount.namespace, mount.bucket_name>>}],
                ret |-> <<mount.namespace, mount.bucket_name>>,
                exc |-> "none"]))

\* the lake branch of OCIFileSystem.split_path
split_path_lake(c, lake_ocid, mount_spc_information, endpoint, health, mount) ==
  LET mount_type == get_mount_type(mount_spc_information)
  IN IF mount_type = "" THEN [c |-> c, ret |-> <<>>, exc |-> "ValueError"]
     ELSE get_bucket_namespace_for_given_mount_name(
            c, lake_ocid, mount_spc_information, mount_type, endpoint, health, mount)

\* the client methods that ask for a pre-authenticated request when the
\* bucket is managed
ParOps == {"get_object", "head_object", "list_objects", "put_object",
           "create_multipart_upload", "upload_part",
           "commit_multipart_upload", "abort_multipart_upload"}
ClientOps == ParOps \cup {"delete_object", "copy_object"}

ParScopeAllRead(op) == "READ"

\* the access type each overriding method passes to generate_par
ParScope(op) ==
  IF op \in {"get_object", "head_object", "list_objects"} THEN "READ" ELSE "WRITE"

Event(ev, op, scope, key) == [ev |-> ev, op |-> op, scope |-> scope, key |-> key]

\* one method of LakeSharingObjectStorageClient: the requests it sends, in
\* order, and the exception it raises; par is the answer to generate_par
ClientMethod(c, op, namespace_name, bucket_name, par) ==
  IF op \in ParOps \cup {"delete_object"}
     /\ is_lakehouse_managed_bucket(c, namespace_name, bucket_name)
  THEN LET lake_sharing_client ==
             get_lake_sharing_client_by_bucket_namespace(c, namespace_name, bucket_name)
           key == IF op = "list_objects" THEN "None" ELSE ObjectName
       IN IF IsNone(lake_sharing_client)
          THEN [events |-> <<>>, exc |-> "AttributeError"]
          ELSE IF op = "delete_object"
          THEN [events |-> <<Event("lakeshare_delete_object", op, "", ObjectName)>>,
                exc |-> "none"]
          ELSE IF par = "err"
          THEN [events |-> <<Event("generate_par", op, ParScope(op), key)>>,
                exc |-> "OCIError"]
          ELSE [events |-> <<Event("generate_par", op, ParScope(op), key),
                             Event("call_api_par", op, "", ObjectName)>>,
                exc |-> "none"]
  ELSE [events |-> <<Event("direct", op, "", ObjectName)>>, exc |-> "none"]

(* ----------------- concurrent calls on one filesystem ----------------- *)
\* two threads run _lsdir("b@n/d") and one runs touch("b@n/d/f"); another
\* client of the bucket puts and deletes "b@n/d/f" and "b@n/d/g"
Listers == {"ls1", "ls2"}
Toucher == "touch"
RaceFiles == {FilePath, OtherFile}
MaxExternal == 2

(* ------------------------------ state --------------------------------- *)
VARIABLES f,        \* the write handle (OCIFile)
          store,    \* the object and the multipart upload at the handle's key
          calls,    \* the client methods invoked so far, in order
          dircache, \* OCIFileSystem.dircache
          client,   \* OCIFileSystem.oci_client (the redirection registry)
          written,  \* number of bytes write() has buffered
          failures, \* failing remote calls so far
          exc,      \* exception raised by the last operation, or "none"
          called,   \* which of commit() and discard() the caller has invoked
          lastRead, \* result of the last _fetch_range, None before any
          lastFetch, \* the _fetch_range call just made: log length before, exception
          discarded, \* discard() has returned without raising
          failedAt, \* length of the call log when a part upload first raised IOError
          lastInv,  \* the invalidate_cache call just made and the cache before it
          lastCall, \* the last storage call made on the client, None before any
          resolved, \* (namespace, bucket) pairs a mount resolution has returned
          lastMount, \* the mount specifier just resolved and how it ended
          lastError, \* the error just translated and the exception returned
          objects,  \* the objects of bucket b@n, by path
          bucket,   \* bucket b@n exists
          lastOp,   \* the filesystem operation just run and how it ended
          pc,       \* where each concurrent call stands
          scan,     \* the locals of each concurrent _lsdir
          produced, \* the listings list_objects has answered to the concurrent calls
          race      \* what has happened so far among the concurrent calls

vars == <<f, store, calls, dircache, client, written, failures, exc, called,
          lastRead, lastFetch, discarded, failedAt, lastInv, lastCall, resolved,
          lastMount, lastError, objects, bucket, lastOp, pc, scan, produced, race>>

treeVars == <<objects, bucket, lastOp>>
raceVars == <<pc, scan, produced, race>>
lakeVars == <<lastCall, resolved, lastMount, lastError, treeVars, raceVars>>
fileVars == <<f, store, calls, dircache, written, failures, called, lastRead, lastFetch,
              discarded, failedAt, lastInv>>

World(orc) == [f |-> f, store |-> store, calls |-> calls, dircache |-> dircache,
               client |-> client, orc |-> orc, exc |-> "none", ret |-> <<>>]

\* the handler ran to its end on the script orc and left the world w
Becomes(w, orc) ==
  /\ w.orc = <<>>
  /\ Len(w.calls) <= MaxLog
  /\ f' = w.f
  /\ store' = w.store
  /\ calls' = w.calls
  /\ dircache' = w.dircache
  /\ client' = w.client
  /\ exc' = w.exc
  /\ failures' = failures + NonOk(orc)
  /\ lastInv' = None
  /\ UNCHANGED lakeVars

Init ==
  /\ f = NewFile
  /\ store = NewStore
  /\ calls = <<>>
  /\ dircache = <<>>
  /\ client = NewClient
  /\ written = 0
  /\ failures = 0
  /\ exc = "none"
  /\ called = {}
  /\ lastRead = None
  /\ lastFetch = None
  /\ discarded = FALSE
  /\ failedAt = None
  /\ lastInv = None
  /\ lastMount = None
  /\ lastError = None
  /\ lastCall = None
  /\ resolved = {}
  /\ objects = {}
  /\ bucket = TRUE
  /\ lastOp = None
  /\ pc = [t \in Listers \cup {Toucher} |-> "idle"]
  /\ scan = [t \in Listers |-> [results |-> {}, formatted_files |-> {}, ret |-> None]]
  /\ produced = {}
  /\ race = [put |-> "no", popped |-> FALSE, external |-> 0, early |-> {}, late |-> {}]

\* the handlers a caller runs on the open handle, by name
Handle(h, orc) ==
  CASE h[1] = "write" -> write(World(orc), Stream(written, h[2]))
    [] h[1] = "flush" -> flush(World(orc), h[2])
    [] h[1] = "close" -> close(World(orc))
    [] h[1] = "commit" -> commit(World(orc))
    [] h[1] = "discard" -> discard(World(orc))
    [] h[1] = "_fetch_range" -> _fetch_range(World(orc), 0, h[2], 0)

RECURSIVE Scripts(_, _, _)
\* the outcome scripts handler h consumes in full: base, and base followed
\* by at most budget failures, each at a call the handler makes (the calls
\* past the end of a script succeed, so a script ends with a failure)
Scripts(h, base, budget) ==
  IF budget <= 0 THEN {base}
  ELSE LET n == Len(Handle(h, base).calls) - Len(calls)
       IN {base} \cup UNION {Scripts(h, base \o [i \in 1..j |-> "ok"] \o <<x>>,
                                     budget - 1) :
                               j \in 0..(n - Len(base) - 1), x \in Failing}

\* handler h runs on one of its outcome scripts
Run(h) ==
  \E orc \in Scripts(h, <<>>, MaxFailures - failures) :
    \E w \in {Handle(h, orc)} :
      /\ Becomes(w, orc)
      /\ written' = IF h[1] = "write" /\ w.f.loc # f.loc THEN written + h[2]
                    ELSE written
      /\ called' = IF h[1] \in {"commit", "discard"} THEN called \cup {h[1]}
                   ELSE called
      /\ failedAt' = IF /\ IsNone(failedAt) /\ w.exc = "IOError"
                         /\ Len(w.calls) > Len(calls)
                         /\ w.calls[Len(w.calls)].op = "upload_part"
                         /\ ~w.calls[Len(w.calls)].ok
                      THEN Some(Len(w.calls)) ELSE failedAt
      /\ discarded' = (discarded \/ (h[1] = "discard" /\ w.exc = "none"))
      /\ lastFetch' = IF h[1] = "_fetch_range" THEN Some(<<Len(calls), w.exc>>) ELSE None
      /\ lastRead' = IF h[1] # "_fetch_range" THEN lastRead
                     ELSE IF w.exc = "none" THEN Some(w.ret) ELSE None

\* fs.open(path, "wb", block_size, autocommit) with a block size of sizes
OpenWith(sizes) ==
  /\ f.state = "unopened"
  /\ \E block_size \in sizes, autocommit \in BOOLEAN :
       \E w \in {OpenWrite(World(<<>>), block_size, autocommit)} : Becomes(w, <<>>)
  /\ UNCHANGED <<written, called, lastRead, lastFetch, discarded, failedAt>>

Open == OpenWith(1..MaxBlockSize)

\* fs.open(path, "rb", block_size, size)
OpenForRead ==
  /\ f.state = "unopened"
  /\ \E block_size \in 1..MaxBlockSize, size \in {None, Some(0), Some(MaxTotal)} :
       \E w \in {OpenRead(World(<<>>), block_size, size)} : Becomes(w, <<>>)
  /\ UNCHANGED <<written, called, lastRead, lastFetch, discarded, failedAt>>

\* write() of some bytes, total bytes at most being written in the session
WriteUpTo(total) ==
  /\ f.state = "open"
  /\ \E n \in 0..(total - written) : Run(<<"write", n>>)

Write == WriteUpTo(MaxTotal)

Flush ==
  /\ f.state = "open"
  /\ \E force \in BOOLEAN : Run(<<"flush", force>>)

Close ==
  /\ f.state = "open"
  /\ Run(<<"close">>)

Commit ==
  /\ f.state = "open"
  /\ Run(<<"commit">>)

Discard ==
  /\ f.state = "open"
  /\ Run(<<"discard">>)

\* a full-range read of the path through a read handle, once the write
\* handle is closed: nothing is fetched for an empty object
FetchRange ==
  /\ f.state = "open" /\ f.closed
  /\ ~IsNone(store.obj) /\ Len(Val(store.obj)) > 0
  /\ Run(<<"_fetch_range", Len(Val(store.obj))>>)

Next ==
  Open \/ OpenForRead \/ Write \/ Flush \/ Close \/ Commit \/ Discard \/ FetchRange

Spec == Init /\ [][Next]_vars


(* ------------------- the directory cache's operations ----------------- *)
CacheBlockSizes == {MINIMUM_BLOCK_SIZE}
CacheTotal == MINIMUM_BLOCK_SIZE

\* what the service can list under a directory: the object of the handle
\* is listed once it exists, other objects come and go
RemoteListings(path) ==
  IF path = NamespaceDir THEN {{BucketDir}}
  ELSE IF path = BucketDir
  THEN {{SiblingDir, ParentDir}} \cup (IF IsNone(store.obj) THEN {{SiblingDir}} ELSE {})
  ELSE IF path = ParentDir
  THEN IF IsNone(store.obj) THEN {{OtherFile}} ELSE {{OtherFile, FilePath}}
  ELSE {{}}

\* fs._ls(path, refresh)
Ls ==
  \E path \in CacheDirs, refresh \in BOOLEAN, outcome \in {"ok", "err"} :
    \E files \in RemoteListings(path) :
      \E w \in {_ls(World(<<>>), path, refresh, outcome, files)} :
        /\ dircache' = w.dircache
        /\ exc' = w.exc
        /\ lastInv' = None
        /\ UNCHANGED <<f, store, calls, client, written, failures, called,
                       lastRead, lastFetch, discarded, failedAt, lakeVars>>

\* fs.invalidate_cache(path)
InvalidateCache ==
  \E path \in CacheDirs \cup {FilePath} :
    \E w \in {invalidate_cache(World(<<>>), path)} :
      /\ dircache' = w.dircache
      /\ exc' = w.exc
      /\ lastInv' = Some([path |-> Some(path), before |-> dircache])
      /\ UNCHANGED <<f, store, calls, client, written, failures, called,
                     lastRead, lastFetch, discarded, failedAt, lakeVars>>

\* fs.invalidate_cache()
InvalidateCacheAll ==
  \E w \in {invalidate_cache_None(World(<<>>))} :
    /\ dircache' = w.dircache
    /\ exc' = w.exc
    /\ lastInv' = Some([path |-> None, before |-> dircache])
    /\ UNCHANGED <<f, store, calls, client, written, failures, called,
                   lastRead, lastFetch, discarded, failedAt, lakeVars>>

CacheOpen == OpenWith(CacheBlockSizes)

CacheWrite == WriteUpTo(CacheTotal)

NextCache ==
  Ls \/ InvalidateCache \/ InvalidateCacheAll \/ CacheOpen \/ CacheWrite
    \/ Close \/ Commit

SpecCache == Init /\ [][NextCache]_vars


(* --------------------- the registry's operations ---------------------- *)
MountAnswers ==
  {[raises |-> r, status |-> 404, namespace |-> "", bucket_name |-> ""] :
      r \in BOOLEAN}
    \cup {[raises |-> FALSE, status |-> 200, namespace |-> p[1], bucket_name |-> p[2]] :
            p \in Pairs}

\* split_path on an "ocilake://" path; answered: every service asked
\* answers, and the mount lookup answers 200
Resolve(record) ==
  \E lake_ocid \in Lakes, spec \in MountSpecs, endpoint \in {"ok", "err"},
     health \in {"healthy", "unhealthy", "err"}, mount \in MountAnswers :
    \E r \in {split_path_lake(client, lake_ocid, spec, endpoint, health, mount)} :
       /\ client' = r.c
       /\ exc' = r.exc
       /\ resolved' = IF r.exc = "none" THEN resolved \cup {r.ret} ELSE resolved
       /\ lastMount' = IF ~record THEN None
                       ELSE Some([spec |-> spec, exc |-> r.exc,
                                  answered |-> /\ endpoint = "ok" /\ health # "err"
                                               /\ ~mount.raises /\ mount.status = 200])
       /\ UNCHANGED <<fileVars, lastCall, lastError, treeVars, raceVars>>

ResolveMount == Resolve(FALSE)

ResolveShape == Resolve(TRUE)

\* a storage method called on fs.oci_client
StorageCall ==
  \E op \in ClientOps, p \in Pairs, par \in {"ok", "err"} :
    \E r \in {ClientMethod(client, op, p[1], p[2], par)} :
       /\ lastCall' = Some([op |-> op, namespace |-> p[1], bucket |-> p[2],
                            events |-> r.events, recorded |-> p \in client.recorded])
       /\ exc' = r.exc
       /\ UNCHANGED <<fileVars, client, resolved, lastMount, lastError, treeVars, raceVars>>

\* OCIFileSystem.connect(refresh=True)
Connect ==
  /\ client' = NewClient
  /\ exc' = "none"
  /\ UNCHANGED <<fileVars, lakeVars>>

NextLake == ResolveMount \/ StorageCall \/ Connect

SpecLake == Init /\ [][NextLake]_vars

NextMount == ResolveShape \/ Connect

SpecMount == Init /\ [][NextMount]_vars

(* ------------------------- translating errors ------------------------ *)
\* statuses and service codes tried: the ones of the table and one of each
\* that is not in it
ErrorStatuses == {400, 401, 402, 403, 404, 405, 409, 412, 418, 429, 500, 501, 503}
ErrorCodes ==
  (DOMAIN ERROR_CODE_TO_EXCEPTION \ {StatusStr(n) : n \in ErrorStatuses})
    \cup {"BucketNotEmpty"}

\* translate_oci_error(error, message), once in a behaviour
Translate ==
  /\ IsNone(lastError)
  /\ \E code \in ErrorCodes, status \in ErrorStatuses, has \in BOOLEAN,
        text \in {None, Some("error.message")}, message \in {None, Some("message")} :
       LET error == [code |-> code, status |-> status, message |-> text,
                     hasCodeAndStatus |-> has]
       IN /\ lastError' = Some([error |-> error, message |-> message,
                                result |-> TranslateError(error, message)])
          /\ UNCHANGED <<fileVars, client, exc, lastCall, resolved, lastMount, treeVars, raceVars>>

NextErrors == Translate

SpecErrors == Init /\ [][NextErrors]_vars

(* ------------------- the filesystem's operations on keys -------------- *)
\* the operation op on path has run on the filesystem and left it as a
Ends(op, path, a) ==
  /\ dircache' = a.dircache
  /\ objects' = a.objects
  /\ bucket' = a.bucket
  /\ exc' = a.exc
  /\ lastOp' = Some([op |-> op, path |-> path, exc |-> a.exc, failed |-> a.failed])
  /\ lastInv' = None
  /\ UNCHANGED <<f, store, calls, client, written, failures, called, lastRead,
                 lastFetch, discarded, failedAt, lastCall, resolved, lastMount,
                 lastError, raceVars>>

Here == Fs(dircache, objects, bucket)
CallEnds == {"ok", "err"}

TreeLs ==
  \E path \in {NamespaceDir} \cup TreeDirs, refresh \in BOOLEAN :
    \E a \in {ls(Here, path, refresh)} : Ends("ls", path, a)

Touch ==
  \E path \in TreeFiles, outcome \in CallEnds :
    \E a \in {TreeTouch(Here, path, outcome)} : Ends("touch", path, a)

Copy ==
  \E path1 \in TreeFiles, path2 \in TreeFiles, outcome \in CallEnds :
    /\ path1 # path2
    /\ \E a \in {copy_basic(Here, path1, path2, outcome)} : Ends("copy_basic", path2, a)

Mkdir ==
  \E path \in {BucketDir, ParentDir}, create_parents \in BOOLEAN, outcome \in CallEnds :
    \E a \in {mkdir(Here, path, create_parents, outcome)} : Ends("mkdir", path, a)

Rmdir ==
  \E path \in {BucketDir, ParentDir}, outcome \in CallEnds :
    \E a \in {rmdir(Here, path, outcome)} : Ends("rmdir", path, a)

BulkDelete ==
  \E files \in SUBSET TreeFiles, failAt \in 0..2 :
    /\ failAt <= Cardinality(files)
    /\ \E a \in {bulk_delete(Here, Sorted(files), failAt)} : Ends("bulk_delete", files, a)

Rm ==
  \E path \in {BucketDir} \cup TreeFiles, outcome \in CallEnds :
    \E a \in {rm(Here, path, FALSE, 0, outcome)} : Ends("rm", path, a)

RmRecursive ==
  \E path \in TreeDirs, failAt \in 0..2, outcome \in CallEnds :
    \E a \in {rm(Here, path, TRUE, failAt, outcome)} : Ends("rm_recursive", path, a)

NextTree ==
  TreeLs \/ Touch \/ Copy \/ Mkdir \/ Rmdir \/ BulkDelete \/ Rm \/ RmRecursive

SpecTree == Init /\ [][NextTree]_vars

(* ----------------- the steps of the concurrent calls ------------------ *)
raceFrame == <<f, store, calls, client, written, failures, exc, called, lastRead,
               lastFetch, discarded, failedAt, lastInv, lastCall, resolved, lastMount,
               lastError, bucket, lastOp>>

Goto(t, label) == pc' = [pc EXCEPT ![t] = label]

\* "if path not in self.dircache or refresh:"
LsCheck(t) ==
  /\ pc[t] = "idle"
  /\ \E refresh \in BOOLEAN :
       Goto(t, IF ParentDir \notin DOMAIN dircache \/ refresh THEN "list" ELSE "hit")
  /\ UNCHANGED <<dircache, objects, scan, produced, race, raceFrame>>

\* list_call_get_all_results(...).data, or a ServiceError that is raised
LsList(t) ==
  /\ pc[t] = "list"
  /\ \E outcome \in CallEnds :
       IF outcome # "ok"
       THEN Goto(t, "done") /\ UNCHANGED <<scan, produced, race>>
       ELSE /\ Goto(t, "format")
            /\ scan' = [scan EXCEPT ![t].results = Listing(objects, bucket, ParentDir),
                                     ![t].formatted_files = {}]
            /\ produced' = produced \cup {Listing(objects, bucket, ParentDir)}
            /\ race' = [race EXCEPT !.early = IF race.put = "no" THEN @ \cup {t} ELSE @]
  /\ UNCHANGED <<dircache, objects, raceFrame>>

\* one round of "for f in results.objects" / "for p in results.prefixes"
LsFormat(t) ==
  /\ pc[t] = "format"
  /\ \E o \in scan[t].results :
       scan' = [scan EXCEPT ![t].results = @ \ {o}, ![t].formatted_files = @ \cup {o}]
  /\ UNCHANGED <<pc, dircache, objects, produced, race, raceFrame>>

\* "self.dircache[path] = formatted_files; return formatted_files"
LsStore(t) ==
  /\ pc[t] = "format"
  /\ scan[t].results = {}
  /\ dircache' = CachePut(dircache, ParentDir, scan[t].formatted_files)
  /\ scan' = [scan EXCEPT ![t].ret = Some(scan[t].formatted_files)]
  /\ race' = [race EXCEPT !.late = IF race.popped THEN @ \cup {t} ELSE @]
  /\ Goto(t, "done")
  /\ UNCHANGED <<objects, produced, raceFrame>>

\* "return self.dircache[path]", a KeyError when the entry has gone
LsHit(t) ==
  /\ pc[t] = "hit"
  /\ scan' = [scan EXCEPT ![t].ret = IF ParentDir \in DOMAIN dircache
                                      THEN Some(dircache[ParentDir]) ELSE None]
  /\ Goto(t, "done")
  /\ UNCHANGED <<dircache, objects, produced, race, raceFrame>>

\* touch: put_object, or a ServiceError that is raised
TouchPut ==
  /\ pc[Toucher] = "idle"
  /\ \E outcome \in CallEnds :
       IF outcome # "ok"
       THEN /\ Goto(Toucher, "done")
            /\ race' = [race EXCEPT !.put = "failed"]
            /\ UNCHANGED objects
       ELSE /\ Goto(Toucher, "pop")
            /\ race' = [race EXCEPT !.put = "ok"]
            /\ objects' = objects \cup {FilePath}
  /\ UNCHANGED <<dircache, scan, produced, raceFrame>>

\* invalidate_cache(_parent(path)): "self.dircache.pop(path, None)"
TouchPop ==
  /\ pc[Toucher] = "pop"
  /\ dircache' = Pop(dircache, ParentDir)
  /\ race' = [race EXCEPT !.popped = TRUE]
  /\ Goto(Toucher, "popparent")
  /\ UNCHANGED <<objects, scan, produced, raceFrame>>

\* "self.dircache.pop(self._parent(path), None)"
TouchPopParent ==
  /\ pc[Toucher] = "popparent"
  /\ dircache' = Pop(dircache, _parent(ParentDir))
  /\ Goto(Toucher, "done")
  /\ UNCHANGED <<objects, scan, produced, race, raceFrame>>

\* another client of the bucket puts or deletes an object of the directory
OtherWriter ==
  /\ race.external < MaxExternal
  /\ \E o \in RaceFiles :
       objects' = IF o \in objects THEN objects \ {o} ELSE objects \cup {o}
  /\ race' = [race EXCEPT !.external = @ + 1]
  /\ UNCHANGED <<pc, dircache, scan, produced, raceFrame>>

NextRace ==
  \/ \E t \in Listers : LsCheck(t)
  \/ \E t \in Listers : LsList(t)
  \/ \E t \in Listers : LsFormat(t)
  \/ \E t \in Listers : LsStore(t)
  \/ \E t \in Listers : LsHit(t)
  \/ TouchPut
  \/ TouchPop
  \/ TouchPopParent
  \/ OtherWriter

SpecRace == Init /\ [][NextRace]_vars

(* ------------------------ reading the call log ------------------------ *)
MultipartOps == {"create_multipart_upload", "upload_part",
                 "commit_multipart_upload", "abort_multipart_upload"}

IsUploadPart(c) == c.op = "upload_part"
IsPutObject(c) == c.op = "put_object"
IsOk(c) == c.ok

\* the upload_part calls, in the order they were made
Sent == SelectSeq(calls, IsUploadPart)
Puts == SelectSeq(calls, IsPutObject)

NoRemoteFailure == \A i \in DOMAIN calls : calls[i].ok
NoMultipartCall == \A i \in DOMAIN calls : calls[i].op \notin MultipartOps

RECURSIVE Flat(_)
Flat(ss) == IF ss = <<>> THEN <<>> ELSE Head(ss).body \o Flat(Tail(ss))

RECURSIVE ConcatNums(_, _)
ConcatNums(ps, nums) ==
  IF nums = {} THEN <<>>
  ELSE LET n == CHOOSE x \in nums : \A y \in nums : x <= y
       IN Flat(SelectSeq(ps, LAMBDA c : c.num = n)) \o ConcatNums(ps, nums \ {n})

\* the bodies passed to upload_part, joined in ascending part-number order
ConcatAscending(ps) == ConcatNums(ps, {ps[i].num : i \in DOMAIN ps})

\* all the bytes write() has accepted, in order
Written == Stream(0, written)

Session == f.state = "open"

\* commit() has run, called by the closing flush or by the caller
CommitRan == (f.autocommit /\ f.forced) \/ "commit" \in called

(* ------------------------------ claims -------------------------------- *)

\* C1: Round-trip. After any sequence of write() calls on an autocommit
\* handle and close(), with no remote failure, the object at the path is
\* exactly the bytes written and a full-range read returns exactly them.
C1_RoundTrip ==
  (Session /\ f.autocommit /\ f.closed /\ called = {} /\ NoRemoteFailure)
    => /\ store.obj = Some(Written)
       /\ (~IsNone(lastRead) => Val(lastRead) = Written)

C1_Witness ==
  /\ Session /\ f.autocommit /\ f.closed /\ called = {} /\ NoRemoteFailure
  /\ Len(Sent) >= 2
  /\ ~IsNone(lastRead)

\* C2: in a multipart session with no remote failure, driven by write, flush
\* and close only, the bodies passed to upload_part, joined in ascending
\* part-number order and followed by the bytes still buffered, are exactly
\* the bytes written; once the closing flush has run nothing is left buffered.
C2_PartsReproduceBytes ==
  (Session /\ ~IsNone(f.parts) /\ called = {} /\ NoRemoteFailure)
    => ConcatAscending(Sent)
         \o (IF f.forced THEN <<>> ELSE Val(f.buffer).data) = Written

C2_Witness ==
  /\ Session /\ f.closed /\ called = {} /\ NoRemoteFailure
  /\ f.blocksize = 4
  /\ Len(Sent) = 2 /\ Len(Sent[1].body) = 3 /\ Len(Sent[2].body) = 4

\* C3 as stated: every part passed to upload_part is at least
\* MINIMUM_BLOCK_SIZE long unless it is the only part of its session.
C3_Original ==
  \A i \in DOMAIN Sent :
    \/ Len(Sent[i].body) >= MINIMUM_BLOCK_SIZE
    \/ \A j \in DOMAIN Sent : Sent[j].num = Sent[i].num

\* C3 amended: every part passed to upload_part is at least
\* MINIMUM_BLOCK_SIZE long unless it carries the highest part number of its
\* session (the part the closing flush sends from a short buffer).
C3_AllButLastPartAtLeastMinimum ==
  \A i \in DOMAIN Sent : \A j \in DOMAIN Sent :
    Sent[i].num < Sent[j].num => Len(Sent[i].body) >= MINIMUM_BLOCK_SIZE

C3_Witness ==
  \E i \in DOMAIN Sent : \E j \in DOMAIN Sent :
    /\ Sent[i].num < Sent[j].num
    /\ Len(Sent[j].body) < MINIMUM_BLOCK_SIZE

\* C4: every part passed to upload_part is at most MAXIMUM_BLOCK_SIZE long,
\* for every block size accepted at open.
C4_NoPartAboveMaximum ==
  \A i \in DOMAIN Sent : Len(Sent[i].body) <= MAXIMUM_BLOCK_SIZE

\* C7 as stated: with zero bytes written, autocommit on or off, committing
\* creates an empty object and the session issues no multipart call.
C7_Original ==
  (Session /\ written = 0 /\ CommitRan /\ "discard" \notin called /\ NoRemoteFailure)
    => store.obj = Some(<<>>) /\ NoMultipartCall

\* C7 amended: with zero bytes written, committing creates an empty object
\* and the session never uploads a part nor commits a multipart upload; with
\* autocommit on it issues no multipart call at all (with autocommit off,
\* close() creates a multipart upload and commit() aborts it).
C7_EmptyCommit ==
  (Session /\ written = 0)
    => /\ \A i \in DOMAIN calls :
            calls[i].op \notin {"upload_part", "commit_multipart_upload"}
       /\ (f.autocommit => NoMultipartCall)
       /\ (CommitRan /\ "discard" \notin called /\ NoRemoteFailure
             => store.obj = Some(<<>>))

C7_Witness ==
  /\ Session /\ written = 0 /\ ~f.autocommit /\ f.closed
  /\ called = {"commit"} /\ NoRemoteFailure
  /\ store.obj = Some(<<>>)
  /\ \E i \in DOMAIN calls : calls[i].op = "abort_multipart_upload"

\* C8: with autocommit on and no remote failure, a handle closed with
\* 0 < n < block size bytes written has made exactly one put_object, carrying
\* all n bytes, and no multipart call; once n reaches the block size a
\* multipart upload has been created and no put_object is made.  Whatever the
\* remote answers, a session below the block size makes no multipart call,
\* and when it is driven by write, flush and close only, every put_object it
\* makes carries all n bytes and at most one succeeds.
C8_OneShotBelowBlockSize ==
  /\ (Session /\ f.autocommit /\ NoRemoteFailure /\ "discard" \notin called)
       => /\ (f.closed /\ 0 < written /\ written < f.blocksize)
               => /\ Len(Puts) = 1
                  /\ Puts[1].body = Written
                  /\ NoMultipartCall
          /\ written >= f.blocksize
               => /\ \E i \in DOMAIN calls : calls[i].op = "create_multipart_upload"
                  /\ Puts = <<>>
  /\ (Session /\ f.autocommit /\ written < f.blocksize) => NoMultipartCall
  /\ (Session /\ f.autocommit /\ called = {} /\ 0 < written /\ written < f.blocksize)
       => /\ \A i \in DOMAIN Puts : Puts[i].body = Written
          /\ Len(SelectSeq(Puts, IsOk)) <= 1

C8_Witness ==
  /\ Session /\ f.autocommit /\ NoRemoteFailure /\ called = {} /\ f.closed
  /\ 1 < written /\ written < f.blocksize
  /\ store.obj = Some(Written)

OkUploadsBefore(i) ==
  Cardinality({j \in 1..(i - 1) : calls[j].op = "upload_part" /\ calls[j].ok})

PositionalNumbers ==
  \A i \in DOMAIN calls :
    calls[i].op = "upload_part" => calls[i].num = OkUploadsBefore(i) + 1

CommitListAscending ==
  \A i \in DOMAIN calls :
    calls[i].op = "commit_multipart_upload"
      => calls[i].plist = [k \in 1..OkUploadsBefore(i) |-> k]

\* C9 as stated: part numbers are 1-based positions in the parts list, a
\* number passed to upload_part is never passed again, also after a failed
\* attempt, and the list committed is exactly 1..k ascending.
C9_Original ==
  /\ PositionalNumbers
  /\ \A i \in DOMAIN Sent : \A j \in DOMAIN Sent : i < j => Sent[i].num # Sent[j].num
  /\ CommitListAscending

\* C9 amended: part numbers are 1-based positions in the parts list, a
\* number passed to an upload_part call that succeeded is never passed
\* again (the number of a failed attempt is passed again by the retry), and
\* the list committed is exactly 1..k ascending.
C9_PartNumbers ==
  /\ PositionalNumbers
  /\ \A i \in DOMAIN Sent : \A j \in DOMAIN Sent :
       (i < j /\ Sent[i].ok) => Sent[i].num # Sent[j].num
  /\ CommitListAscending
  /\ (~IsNone(f.parts) =>
        \A k \in DOMAIN Val(f.parts) : Val(f.parts)[k].partNum = k)

C9_Witness ==
  /\ \E i \in DOMAIN Sent : \E j \in DOMAIN Sent :
       i < j /\ ~Sent[i].ok /\ Sent[j].ok /\ Sent[i].num = Sent[j].num
  /\ \E i \in DOMAIN calls :
       /\ calls[i].op = "commit_multipart_upload" /\ calls[i].ok
       /\ Len(calls[i].plist) >= 2

\* C10: with autocommit off the object is not visible at the path before
\* commit() is called, whatever is written, flushed or closed; a close()
\* without remote failure leaves a multipart upload open that holds the
\* bytes written as parts; and after commit() the object exists.
C10_NotVisibleBeforeCommit ==
  (Session /\ ~f.autocommit)
    => /\ ("commit" \notin called => IsNone(store.obj))
       /\ (f.closed /\ called = {} /\ NoRemoteFailure)
            => /\ store.mpu = "open" /\ ~IsNone(f.mpu)
               /\ ConcatAscending(Sent) = Written
       /\ ("commit" \in called /\ "discard" \notin called /\ NoRemoteFailure)
            => ~IsNone(store.obj)

C10_Witness ==
  /\ Session /\ ~f.autocommit /\ f.closed /\ NoRemoteFailure
  /\ called = {"commit"}
  /\ 0 < written /\ written < f.blocksize
  /\ Len(Sent) = 1
  /\ store.obj = Some(Written)


\* C11: after discard() has returned, the multipart upload the handle had
\* opened is aborted at the service, the handle never creates or changes the
\* object again, and every later write() or commit() on it raises, whatever
\* was written before the discard (zero bytes included).
C11_DiscardIsFinal ==
  [][/\ (Discard /\ exc' = "none") => store.mpu' # "open"
     /\ discarded => store.obj' = store.obj
     /\ (discarded /\ (Write \/ Commit)) => exc' # "none"]_vars

\* C12: once a part upload has failed (the flush raised IOError), no later
\* operation on the handle finalizes the multipart upload, and no object
\* with missing or duplicated bytes is published.
C12_NoCommitAfterFailedPart ==
  ~IsNone(failedAt)
    => /\ \A j \in DOMAIN calls :
            (j > Val(failedAt) /\ calls[j].op = "commit_multipart_upload")
              => ~calls[j].ok
       /\ (~IsNone(store.obj) => store.obj = Some(Written))

\* C15: a write handle exists only with a block size of at least
\* MINIMUM_BLOCK_SIZE; an open for writing with a smaller one has raised
\* ValueError with no remote call made and nothing stored; a read handle
\* exists with any block size.
C15_BlockSizeAtOpen ==
  /\ f.state = "open" => f.blocksize >= MINIMUM_BLOCK_SIZE
  /\ f.state = "rejected" =>
        /\ f.blocksize < MINIMUM_BLOCK_SIZE
        /\ exc = "ValueError"
        /\ calls = <<>> /\ store = NewStore /\ dircache = <<>>
  /\ (f.state = "unopened" /\ exc # "none") => exc = "FileNotFoundError"

C15_Witness == f.state = "rejected"

C15_ReadWitness == f.state = "reading" /\ f.blocksize < MINIMUM_BLOCK_SIZE

\* C17: when an operation fails because a part upload failed, that part has
\* been attempted retries + 1 times in a row (the first attempt and the
\* retries of the budget), every attempt failing.
C17_RetriesBeforeFailing ==
  ~IsNone(failedAt) =>
    /\ Val(failedAt) >= retries + 1
    /\ \A i \in (Val(failedAt) - retries)..Val(failedAt) :
          /\ calls[i].op = "upload_part"
          /\ ~calls[i].ok
          /\ calls[i].num = calls[Val(failedAt)].num

\* the calls the _fetch_range call just made has issued
FetchCalls == SubSeq(calls, Val(lastFetch)[1] + 1, Len(calls))

\* C18: one _fetch_range call issues at most max_attempts GETs, and when it
\* fails it has issued max_attempts GETs, all of which failed.
C18_FetchRetries ==
  ~IsNone(lastFetch) =>
    /\ \A i \in DOMAIN FetchCalls : FetchCalls[i].op = "get_object"
    /\ Len(FetchCalls) <= max_attempts
    /\ Val(lastFetch)[2] # "none" =>
          /\ Len(FetchCalls) = max_attempts
          /\ \A i \in DOMAIN FetchCalls : ~FetchCalls[i].ok

\* C19: discard() leaves the handle without its buffer whether the remote
\* abort of the multipart upload succeeded or raised.
C19_DiscardReleasesBuffer ==
  [][Discard => IsNone(f'.buffer)]_vars

\* commit() has returned without raising on the handle: only commit() and
\* discard() drop the buffer, and both do it last
Committed == f.state = "open" /\ IsNone(f.buffer) /\ ~discarded

\* the calls an operation has added to the log
NewCalls == SubSeq(calls', Len(calls) + 1, Len(calls'))

\* C25: COMMITTED is terminal. Once commit() has succeeded on a handle,
\* every later commit() raises, and no later commit, flush or close creates
\* a multipart upload, uploads a part or puts an object.
C25_CommittedIsTerminal ==
  [][Committed =>
       /\ Commit => exc' # "none"
       /\ (Commit \/ Flush \/ Close) =>
            \A i \in DOMAIN NewCalls :
              NewCalls[i].op \notin {"create_multipart_upload", "upload_part",
                                     "put_object"}]_vars

(* ----------------------------- claims: errors ------------------------- *)
\* the service codes the table names (its other keys are HTTP statuses)
RecognisedCodes ==
  {"CannotParseRequest", "InvalidParameter", "LimitExceeded", "MissingParameter",
   "QuotaExceeded", "RelatedResourceNotAuthorizedOrNotFound", "NotAuthenticated",
   "SignUpRequired", "NotAuthorized", "NotAuthorizedOrNotFound", "NotFound",
   "MethodNotAllowed", "IncorrectState", "InvalidatedRetryToken",
   "NotAuthorizedOr ResourceAlreadyExists", "NotAuthorizedOrResourceAlreadyExists",
   "NoEtagMatch", "TooManyRequests", "InternalServerError", "MethodNotImplemented",
   "ServiceUnavailable"}

\* C16: translate_oci_error returns, for every service error whose code is
\* not a recognised code, the fallback: a plain IOError (errno EIO) that
\* carries the original message.
C16_UnrecognisedCodeFallsBack ==
  (/\ ~IsNone(lastError)
   /\ Val(lastError).error.hasCodeAndStatus
   /\ Val(lastError).error.code \notin RecognisedCodes)
    => /\ Val(lastError).result.type = "IOError"
       /\ Val(lastError).result.errno = "EIO"
       /\ IsNone(Val(lastError).message) => Val(lastError).result.message = "str(error)"

(* ----------------------------- claims: cache -------------------------- *)
\* the directory that holds p ("@n" holds the buckets of n, and itself)
ParentOf(p) ==
  CASE p = FilePath -> ParentDir
    [] p = ParentDir -> BucketDir
    [] p = SiblingDir -> BucketDir
    [] p = BucketDir -> NamespaceDir
    [] p = NamespaceDir -> NamespaceDir

\* C13: Cache cascade. After invalidate_cache(p) the cache has no entry for
\* p nor for the parent of p, and every other entry is as it was; after
\* invalidate_cache() the cache is empty.
C13_CacheCascade ==
  ~IsNone(lastInv) =>
    LET before == Val(lastInv).before
        arg == Val(lastInv).path
    IN IF IsNone(arg) THEN DOMAIN dircache = {}
       ELSE /\ Val(arg) \notin DOMAIN dircache
            /\ ParentOf(Val(arg)) \notin DOMAIN dircache
            /\ DOMAIN dircache = DOMAIN before \ {Val(arg), ParentOf(Val(arg))}
            /\ \A q \in DOMAIN dircache : dircache[q] = before[q]

C13_Witness ==
  /\ ~IsNone(lastInv)
  /\ Val(lastInv).path = Some(ParentDir)
  /\ DOMAIN Val(lastInv).before = CacheDirs
  /\ DOMAIN dircache = {NamespaceDir, SiblingDir}

\* the directories from the bucket to the parent of the object
Ancestors == {SubSeq(FilePath, 1, n) : n \in 1..(Len(FilePath) - 1)}

\* the cache has no listing of an ancestor that lacks the next name on the
\* way to the object
NoStaleAncestor(cache) ==
  \A d \in Ancestors :
    d \in DOMAIN cache => SubSeq(FilePath, 1, Len(d) + 1) \in cache[d]

\* C20: when commit() returns without raising, called by the caller or by
\* the closing flush of an open autocommit handle, every ancestor directory of
\* the object either has no entry in the directory cache or its cached
\* listing names its child on the path to the object.
C20_CommitInvalidatesAncestors ==
  [][((Commit \/ (Close /\ f.autocommit /\ ~f.forced /\ ~f.closed))
        /\ exc' = "none")
       => NoStaleAncestor(dircache')]_vars

\* commit() has stored the bytes in one put and left the cache with a
\* listing of the bucket, which therefore names the directory
C20_Witness ==
  /\ "commit" \in called /\ exc = "none" /\ ~f.closed
  /\ ~IsNone(store.obj) /\ Val(store.obj) # <<>>
  /\ BucketDir \in DOMAIN dircache
  /\ NamespaceDir \in DOMAIN dircache

(* --------------------------- claims: registry ------------------------- *)
\* the shapes a mount specifier may have: one segment, three segments with
\* scope database or user, four segments with scope table
GoodShape(spec) ==
  \/ Len(spec) = 1
  \/ Len(spec) = 3 /\ spec[2] \in {"database", "user"}
  \/ Len(spec) = 4 /\ spec[2] = "table"

\* C14: Mount scope validation. Path resolution fails with ValueError on a
\* mount specifier of any other shape than the three good ones, and on a
\* specifier of a good shape it returns the bucket the lake service names.
C14_MountShapes ==
  ~IsNone(lastMount) =>
    /\ ~GoodShape(Val(lastMount).spec) => Val(lastMount).exc = "ValueError"
    /\ (GoodShape(Val(lastMount).spec) /\ Val(lastMount).answered)
          => Val(lastMount).exc = "none"

Last == Val(lastCall)

DirectOnly == Last.events = <<Event("direct", Last.op, "", ObjectName)>>

\* C5: Redirect bypass. A storage call on a (namespace, bucket) pair that no
\* mount resolution has returned is served by the direct implementation and
\* requests no pre-authenticated request, whatever other pairs are managed.
C5_RedirectBypass ==
  (~IsNone(lastCall) /\ <<Last.namespace, Last.bucket>> \notin resolved)
    => DirectOnly

ListedOps == ParOps \cup {"delete_object"}

TokenFirst ==
  /\ Last.events # <<>>
  /\ Last.events[1].ev = "generate_par"
  /\ Last.events[1].scope =
       (IF Last.op \in {"get_object", "head_object", "list_objects"}
        THEN "READ" ELSE "WRITE")
  /\ Last.events[1].key = (IF Last.op = "list_objects" THEN "None" ELSE ObjectName)
  /\ \A i \in DOMAIN Last.events :
       i > 1 => Last.events[i] = Event("call_api_par", Last.op, "", ObjectName)
  /\ Len(Last.events) <= 2

C22_RedirectSurvivesRefresh ==
  [][(/\ StorageCall
      /\ <<Val(lastCall').namespace, Val(lastCall').bucket>> \in resolved
      /\ Val(lastCall').op \in ListedOps)
       => Val(lastCall').events[1].ev # "direct"]_vars

\* C23: the sharing-client cache holds, for a lake, only a client whose
\* health check answered healthy.
C23_OnlyHealthyClientsCached ==
  \A lake \in DOMAIN client.lake_ocid_to_lake_sharing_client_map :
    client.lake_ocid_to_lake_sharing_client_map[lake].healthy

TableMount == <<"m", "table", "d", "t">>

\* C24: the resolution of the mount specifier m:table:d:t, when every
\* service asked answers and the mount lookup answers 200, returns the
\* bucket and namespace of the mount.
C24_TableMountResolves ==
  (/\ ~IsNone(lastMount)
   /\ Val(lastMount).spec = TableMount
   /\ Val(lastMount).answered)
    => Val(lastMount).exc = "none"

\* C30: the registry key is injective. Only a pair that a mount resolution
\* has recorded is managed, and only such a pair is given a sharing client.
C30_RegistryKeyInjective ==
  \A p \in Pairs :
    p \notin client.recorded
      => /\ ~is_lakehouse_managed_bucket(client, p[1], p[2])
         /\ IsNone(get_lake_sharing_client_by_bucket_namespace(client, p[1], p[2]))

(* ------------------------- claims: operations on keys ----------------- *)
\* every entry of the cache before is in the cache after, unchanged
Kept(before, after) ==
  \A d \in DOMAIN before : d \in DOMAIN after /\ after[d] = before[d]

MutatingOps == {"touch", "copy_basic", "mkdir", "rmdir", "rm", "rm_recursive", "bulk_delete"}

\* C21: the directory cache is invalidated only on success: when the remote
\* mutating call of touch, copy_basic, mkdir, rmdir, rm or bulk_delete fails,
\* the cache after the operation is the cache before it; in particular every
\* entry that was in the cache is still there, unchanged.
C21_FailureKeepsCache ==
  [][(/\ ~IsNone(lastOp')
      /\ Val(lastOp').op \in MutatingOps
      /\ Val(lastOp').failed)
       => Kept(dircache, dircache')]_vars

\* C28: after touch(p) has succeeded, every ancestor directory of p that has
\* an entry in the directory cache lists its child on the path to p.
C28_TouchRefreshesAncestors ==
  (/\ ~IsNone(lastOp) /\ Val(lastOp).op = "touch" /\ Val(lastOp).exc = "none")
    => \A n \in 1..(Len(Val(lastOp).path) - 1) :
         LET d == SubSeq(Val(lastOp).path, 1, n)
         IN d \in DOMAIN dircache => SubSeq(Val(lastOp).path, 1, n + 1) \in dircache[d]

\* C29: after rm(path, recursive=True) has succeeded, no entry of the
\* directory cache lists a file or directory at or below path.
C29_RecursiveRmLeavesNoListing ==
  (/\ ~IsNone(lastOp) /\ Val(lastOp).op = "rm_recursive" /\ Val(lastOp).exc = "none")
    => \A d \in DOMAIN dircache : \A o \in dircache[d] :
         ~(o = Val(lastOp).path \/ Below(Val(lastOp).path, o))

(* --------------------------- claims: concurrency ---------------------- *)
\* C26: when threads list the same path concurrently, the cache entry of the
\* path is at every moment the complete listing that one of the calls was
\* answered: never part of one, never a merge of two.
C26_LastWriteWins ==
  ParentDir \in DOMAIN dircache => dircache[ParentDir] \in produced

\* both threads have listed and stored, and their listings differ
C26_Witness ==
  /\ \A t \in Listers : pc[t] = "done" /\ ~IsNone(scan[t].ret)
  /\ Cardinality(produced) = 2
  /\ scan["ls1"].ret # scan["ls2"].ret
  /\ ParentDir \in DOMAIN dircache
  /\ dircache[ParentDir] # {}

\* a following ls(d) with refresh=False includes d/f: the cache has no
\* listing of d, or the one it has names d/f
Fresh == ParentDir \in DOMAIN dircache => FilePath \in dircache[ParentDir]

\* touch has returned without raising, and no other client has written
TouchReturned == pc[Toucher] = "done" /\ race.put = "ok" /\ race.external = 0

\* C27 as stated: once ls(d) and touch(d/f) have both returned, with no
\* other writer, a following ls(d) with refresh=False includes d/f, in every
\* interleaving.
C27_NoStaleListing ==
  (/\ TouchReturned /\ pc["ls1"] = "done" /\ pc["ls2"] = "idle") => Fresh

\* C27, amended: once touch(d/f) and every ls(d) that was started have
\* returned, with no other writer, a following ls(d) with refresh=False
\* includes d/f, unless an ls(d) enumerated d before the put and stored its
\* listing after the invalidation.
C27_StaleOnlyAcrossTouch ==
  (/\ TouchReturned
   /\ \A t \in Listers : pc[t] \in {"idle", "done"}
   /\ race.early \cap race.late = {})
    => Fresh

\* ls(d) enumerated before the put, stored before the invalidation, and the
\* invalidation has removed what it stored
C27_Witness ==
  /\ TouchReturned
  /\ pc["ls1"] = "done" /\ pc["ls2"] = "idle"
  /\ "ls1" \in race.early /\ "ls1" \notin race.late
  /\ scan["ls1"].ret = Some({})
  /\ ParentDir \notin DOMAIN dircache

=============================================================================
